---- MODULE Spec2Model ----
(***************************************************************************)
(* A model of home.py: the discovery of the per-city pages under the       *)
(* output directory (discover_city_pages), the slug to label conversion    *)
(* (slug_to_label), the rendering of the home page (build_home_html) and   *)
(* the two event handlers of the script embedded in the rendered page.     *)
(*                                                                         *)
(* A string is a sequence of one-character strings, so that "Raleigh" is   *)
(* <<"R","a","l","e","i","g","h">>; a path is the sequence of its parts,   *)
(* as pathlib keeps it (Path("dist/a/index.html").parts).                  *)
(***************************************************************************)
EXTENDS Integers, Sequences, FiniteSets, TLC

VARIABLES
    pc,            \* the position of the run
    dist_dir,      \* discover_city_pages: the output directory (a path)
    dir_exists,    \* whether dist_dir exists on disk
    tree,          \* the files on disk under dist_dir (full paths)
    pending,       \* the part of sorted(dist_dir.rglob("*.html")) not yet visited
    discovered,    \* discover_city_pages: the dict label -> path
    city_pages,    \* the list of (label, path) entries
    select_html,   \* the lines between <select ...> and </select> of the document
    slug,          \* slug_to_label: its argument
    label,         \* slug_to_label: its result
    options,       \* the page: citySelect.options
    selectedIndex, \* the page: citySelect.selectedIndex (1-based, 0 for none)
    searchValue,   \* the page: searchInput.value
    keywordValue,  \* the page: keywordInput.value
    href           \* the page: window.location.href

vars == <<pc, dist_dir, dir_exists, tree, pending, discovered, city_pages,
          select_html, slug, label, options, selectedIndex, searchValue,
          keywordValue, href>>

discoverVars == <<dist_dir, dir_exists, tree, pending, discovered>>
labelVars == <<slug, label>>
pageVars == <<options, selectedIndex, searchValue, keywordValue, href>>

-----------------------------------------------------------------------------
(* Bounds of the model. *)

\* The longest slug slug_to_label is applied to, besides the documented examples.
MaxSlugLen == 4
\* The largest number of files in the scanned tree.
MaxFiles == 4
\* The largest number of entries build_home_html is given.
MaxEntries == 3

-----------------------------------------------------------------------------
(* Characters and strings. *)

\* The printable ASCII characters in code point order, from 32 (space) to 126
\* (the grave accent, 96, is spelled out: it cannot be written in a string).
Ascii ==
    <<" ","!","\"","#","$","%","&","'","(",")","*","+",",","-",".","/",
      "0","1","2","3","4","5","6","7","8","9",":",";","<","=",">","?","@",
      "A","B","C","D","E","F","G","H","I","J","K","L","M","N","O","P","Q",
      "R","S","T","U","V","W","X","Y","Z","[","\\","]","^","_","grave",
      "a","b","c","d","e","f","g","h","i","j","k","l","m","n","o","p","q",
      "r","s","t","u","v","w","x","y","z","{","|","}","~">>

Char == {Ascii[i] : i \in 1..Len(Ascii)}

\* The code point of a character.
Ord == [c \in Char |-> 31 + CHOOSE i \in 1..Len(Ascii) : Ascii[i] = c]

Chr(n) == Ascii[n - 31]

IsUpper(c) == Ord[c] >= Ord["A"] /\ Ord[c] <= Ord["Z"]
IsLower(c) == Ord[c] >= Ord["a"] /\ Ord[c] <= Ord["z"]
IsCased(c) == IsUpper(c) \/ IsLower(c)
ToUpper(c) == IF IsLower(c) THEN Chr(Ord[c] - (Ord["a"] - Ord["A"])) ELSE c
ToLower(c) == IF IsUpper(c) THEN Chr(Ord[c] + (Ord["a"] - Ord["A"])) ELSE c

\* s < t for Python strings (and for JavaScript's): by code point, a proper
\* prefix first.
RECURSIVE StrLess(_, _)
StrLess(s, t) ==
    IF t = <<>> THEN FALSE
    ELSE IF s = <<>> THEN TRUE
    ELSE IF Head(s) # Head(t) THEN Ord[Head(s)] < Ord[Head(t)]
    ELSE StrLess(Tail(s), Tail(t))

\* str.lower() and String.prototype.toLowerCase().
lower(s) == [i \in 1..Len(s) |-> ToLower(s[i])]

\* str.title(): a cased character is upper-cased when the character before it
\* is not cased (or there is none) and lower-cased when it is.
title(s) ==
    [i \in 1..Len(s) |->
        IF i > 1 /\ IsCased(s[i - 1]) THEN ToLower(s[i]) ELSE ToUpper(s[i])]

\* str.split(sep) for a one-character separator: never the empty list.
RECURSIVE split(_, _)
split(s, sep) ==
    IF \A i \in 1..Len(s) : s[i] # sep THEN <<s>>
    ELSE LET k == CHOOSE i \in 1..Len(s) :
                      s[i] = sep /\ \A j \in 1..(i - 1) : s[j] # sep
         IN <<SubSeq(s, 1, k - 1)>> \o split(SubSeq(s, k + 1, Len(s)), sep)

\* sep.join(parts).
RECURSIVE join(_, _)
join(sep, parts) ==
    IF parts = <<>> THEN <<>>
    ELSE IF Len(parts) = 1 THEN parts[1]
    ELSE parts[1] \o sep \o join(sep, Tail(parts))

\* str.replace(old, new) for a one-character old.
RECURSIVE replace(_, _, _)
replace(s, old, new) ==
    IF s = <<>> THEN <<>>
    ELSE (IF Head(s) = old THEN new ELSE <<Head(s)>>) \o replace(Tail(s), old, new)

\* Whether sub occurs in s (in, String.prototype.includes).
includes(s, sub) ==
    \E i \in 0..(Len(s) - Len(sub)) : SubSeq(s, i + 1, i + Len(sub)) = sub

\* Whether s starts with p.
startswith(s, p) == Len(p) <= Len(s) /\ SubSeq(s, 1, Len(p)) = p

-----------------------------------------------------------------------------
(* slug_to_label *)

\* The comparison of the last segment with "nc", as a bug would make it: case
\* sensitive.
IsStateSuffixCaseSensitive(part) == part = <<"n","c">>

IsStateSuffix(part) == lower(part) = <<"n","c">>

\* The city of a slug that ends in -nc: x or "NC" is "NC" when x is empty.
CityOf(parts) ==
    LET joined == join(<<" ">>, SubSeq(parts, 1, Len(parts) - 1))
    IN IF joined # <<>> THEN joined ELSE <<"N","C">>

slug_to_label(s) ==
    LET parts == split(s, "-")
    IN IF parts # <<>> /\ IsStateSuffix(parts[Len(parts)])
       THEN title(CityOf(parts)) \o <<","," ","N","C">>
       ELSE title(replace(s, "-", <<" ">>))

-----------------------------------------------------------------------------
(* Paths (pathlib): a path is the sequence of its parts. *)

INDEX_HTML == <<"i","n","d","e","x",".","h","t","m","l">>
DOT_HTML == <<".","h","t","m","l">>

\* Path.name: the last part, the empty string for Path(".").
name(path) == IF path = <<>> THEN <<>> ELSE path[Len(path)]

\* Path.parent: Path(".").parent is Path(".").
parent(path) == IF path = <<>> THEN <<>> ELSE SubSeq(path, 1, Len(path) - 1)

\* Path.stem: the name without its last suffix; a name whose only dot is its
\* first or its last character has no suffix.
stem(path) ==
    LET n == name(path)
        dots == {i \in 1..Len(n) : n[i] = "."}
    IN IF dots = {} THEN n
       ELSE LET i == CHOOSE d \in dots : \A e \in dots : e <= d
            IN IF i > 1 /\ i < Len(n) THEN SubSeq(n, 1, i - 1) ELSE n

\* Path.as_posix() of a relative path.
as_posix(path) == join(<<"/">>, [i \in 1..Len(path) |-> path[i]])

\* p < q for paths: the parts are compared as a tuple of strings.
RECURSIVE PathLess(_, _)
PathLess(p, q) ==
    IF q = <<>> THEN FALSE
    ELSE IF p = <<>> THEN TRUE
    ELSE IF Head(p) # Head(q) THEN StrLess(Head(p), Head(q))
    ELSE PathLess(Tail(p), Tail(q))

\* sorted(S) for a set of paths.
RECURSIVE SortedPaths(_)
SortedPaths(S) ==
    IF S = {} THEN <<>>
    ELSE LET m == CHOOSE p \in S : \A q \in S \ {p} : PathLess(p, q)
         IN <<m>> \o SortedPaths(S \ {m})

\* The pattern *.html of rglob: the name ends in .html.
MatchesHtml(path) ==
    LET n == name(path)
    IN Len(n) >= Len(DOT_HTML) /\ SubSeq(n, Len(n) - Len(DOT_HTML) + 1, Len(n)) = DOT_HTML

\* dist_dir.rglob("*.html"): every file and every directory below dir whose name
\* matches; the directories are the proper prefixes of the files' paths.
rglob(dir, files) ==
    {p \in UNION {{SubSeq(f, 1, k) : k \in 1..Len(f)} : f \in files} :
        /\ Len(p) > Len(dir)
        /\ startswith(p, dir)
        /\ MatchesHtml(p)}

\* target.relative_to(base).as_posix(); relative_to raises ValueError when
\* target is not below base.
rel_path(base, target) ==
    IF startswith(target, base)
    THEN as_posix(SubSeq(target, Len(base) + 1, Len(target)))
    ELSE <<"ValueError">>

-----------------------------------------------------------------------------
(* discover_city_pages *)

\* "Skip the statewide index page".
IsStatewideIndex(path, dir) == path = dir \o <<INDEX_HTML>>

\* The loop's second test, as a bug would make it: it excludes nothing.
NeverLooseRootFile(path, dir) == FALSE

\* "Skip loose HTML files at the root".
IsLooseRootFile(path, dir) == parent(path) = dir /\ name(path) # INDEX_HTML

SlugOf(path) == IF name(path) = INDEX_HTML THEN name(parent(path)) ELSE stem(path)

\* The test that guards discovered[label] = path, as bugs would make it.
StoresAlways(d, l, path) == TRUE
StoresIfNew(d, l, path) == l \notin DOMAIN d

\* "Prefer nested city directories over single files if duplicates appear".
Stores(d, l, path) == l \notin DOMAIN d \/ name(path) = INDEX_HTML

\* One pass of the for loop's body over path.
LoopBody(d, path, dir) ==
    IF IsStatewideIndex(path, dir) THEN d
    ELSE IF IsLooseRootFile(path, dir) THEN d
    ELSE LET l == slug_to_label(SlugOf(path))
         IN IF Stores(d, l, path)
            THEN [k \in DOMAIN d \cup {l} |-> IF k = l THEN path ELSE d[k]]
            ELSE d

\* The items of the dict in an order that is not sorted by label: by path.
RECURSIVE ItemsByPath(_)
ItemsByPath(d) ==
    IF DOMAIN d = {} THEN <<>>
    ELSE LET m == CHOOSE k \in DOMAIN d :
                      \A o \in DOMAIN d \ {k} : PathLess(d[k], d[o])
         IN <<<<m, d[m]>>>> \o ItemsByPath([k \in DOMAIN d \ {m} |-> d[k]])

\* sorted(discovered.items()): the keys are distinct, so by key.
RECURSIVE sorted_items(_)
sorted_items(d) ==
    IF DOMAIN d = {} THEN <<>>
    ELSE LET m == CHOOSE k \in DOMAIN d :
                      \A o \in DOMAIN d \ {k} : StrLess(k, o)
         IN <<<<m, d[m]>>>> \o sorted_items([k \in DOMAIN d \ {m} |-> d[k]])

\* The return statement's list.
ReturnedPages(d, dir) ==
    LET items == sorted_items(d)
    IN [i \in 1..Len(items) |-> <<items[i][1], rel_path(parent(dir), items[i][2])>>]

-----------------------------------------------------------------------------
(* build_home_html *)

AMP == <<"&","a","m","p",";">>
LT == <<"&","l","t",";">>
GT == <<"&","g","t",";">>
QUOT == <<"&","q","u","o","t",";">>
APOS == <<"&","#","x","2","7",";">>

\* html.escape with quote=False, which leaves the quote characters alone.
EscapeWithoutQuotes(s) ==
    replace(replace(replace(s, "&", AMP), "<", LT), ">", GT)

\* html.escape(s), quote=True: the five replacements in its order, the
\* ampersand first.
html_escape(s) ==
    replace(replace(replace(replace(replace(s, "&", AMP), "<", LT), ">", GT),
                    "\"", QUOT), "'", APOS)

OPTION_OPEN ==
    <<" "," "," "," "," "," "," "," "," "," ","<","o","p","t","i","o","n"," ",
      "v","a","l","u","e","=","\"">>
OPTION_CLOSE == <<"<","/","o","p","t","i","o","n",">">>

\* The placeholder of an empty list of pages.
NO_PAGES_OPTION ==
    <<" "," "," "," "," "," "," "," "," "," ","<","o","p","t","i","o","n"," ",
      "v","a","l","u","e","=","\"","\""," ","d","i","s","a","b","l","e","d",
      ">","N","o"," ","c","i","t","y"," ","p","a","g","e","s"," ","f","o","u",
      "n","d","<","/","o","p","t","i","o","n",">">>

\* The first line of the <select> in the template, before {options_html}.
SELECT_PROMPT ==
    <<" "," "," "," "," "," "," "," "," "," "," "," ","<","o","p","t","i","o",
      "n"," ","v","a","l","u","e","=","\"","\""," ","d","i","s","a","b","l",
      "e","d"," ","s","e","l","e","c","t","e","d",">","S","e","l","e","c","t",
      " ","a"," ","c","i","t","y","<","/","o","p","t","i","o","n",">">>

OptionLine(l, path) ==
    OPTION_OPEN \o html_escape(path) \o <<"\"", ">">> \o html_escape(l) \o OPTION_CLOSE

\* options_html before the placeholder's test, kept as its lines: "\n".join of
\* them is empty exactly when there is none.
OptionLines(pages) == [i \in 1..Len(pages) |-> OptionLine(pages[i][1], pages[i][2])]

\* options_html, as a bug would make it: without the placeholder.
WithoutPlaceholder(pages) == OptionLines(pages)

\* options_html as the template receives it.
options_html(pages) ==
    IF OptionLines(pages) = <<>> THEN <<NO_PAGES_OPTION>> ELSE OptionLines(pages)

\* The lines of the document between <select ...> and </select>; the rest of
\* the document does not depend on the pages.
build_home_html(pages) == <<SELECT_PROMPT>> \o options_html(pages)

-----------------------------------------------------------------------------
(* The browser's reading of the rendered <select>. *)

\* The place of the first c in s, Len(s) + 1 when there is none.
IndexOf(s, c) ==
    IF \E i \in 1..Len(s) : s[i] = c
    THEN CHOOSE i \in 1..Len(s) : s[i] = c /\ \A j \in 1..(i - 1) : s[j] # c
    ELSE Len(s) + 1

\* The decoding of the character references html.escape writes.
RECURSIVE unescape(_)
unescape(s) ==
    IF s = <<>> THEN <<>>
    ELSE IF startswith(s, AMP) THEN <<"&">> \o unescape(SubSeq(s, Len(AMP) + 1, Len(s)))
    ELSE IF startswith(s, LT) THEN <<"<">> \o unescape(SubSeq(s, Len(LT) + 1, Len(s)))
    ELSE IF startswith(s, GT) THEN <<">">> \o unescape(SubSeq(s, Len(GT) + 1, Len(s)))
    ELSE IF startswith(s, QUOT) THEN <<"\"">> \o unescape(SubSeq(s, Len(QUOT) + 1, Len(s)))
    ELSE IF startswith(s, APOS) THEN <<"'">> \o unescape(SubSeq(s, Len(APOS) + 1, Len(s)))
    ELSE <<Head(s)>> \o unescape(Tail(s))

\* String.prototype.trim().
RECURSIVE trim(_)
trim(s) ==
    IF s = <<>> THEN s
    ELSE IF Head(s) = " " THEN trim(Tail(s))
    ELSE IF s[Len(s)] = " " THEN trim(SubSeq(s, 1, Len(s) - 1))
    ELSE s

\* Runs of spaces collapsed to one space.
RECURSIVE collapse(_)
collapse(s) ==
    IF Len(s) < 2 THEN s
    ELSE IF s[1] = " " /\ s[2] = " " THEN collapse(Tail(s))
    ELSE <<Head(s)>> \o collapse(Tail(s))

\* The start of an option element up to its value.
OPTION_TAG == <<"<","o","p","t","i","o","n"," ","v","a","l","u","e","=","\"">>

\* option.text: the text content with its white space stripped and collapsed.
OptionText(o) == collapse(trim(o.textContent))

\* One <option value="..." ...>text</option> line as the option element the
\* parser builds: the attribute ends at the first quote, the tag at the first >
\* after it, the text at the first <.
ParseOption(line) ==
    LET start == IndexOf(line, "<")
        afterOpen == SubSeq(line, start + Len(OPTION_TAG), Len(line))
        q == IndexOf(afterOpen, "\"")
        afterValue == SubSeq(afterOpen, q + 1, Len(afterOpen))
        g == IndexOf(afterValue, ">")
        attrs == SubSeq(afterValue, 1, g - 1)
        afterTag == SubSeq(afterValue, g + 1, Len(afterValue))
        e == IndexOf(afterTag, "<")
    IN [value |-> unescape(SubSeq(afterOpen, 1, q - 1)),
        textContent |-> unescape(SubSeq(afterTag, 1, e - 1)),
        disabled |-> includes(attrs, <<" ","d","i","s","a","b","l","e","d">>),
        selected |-> includes(attrs, <<" ","s","e","l","e","c","t","e","d">>),
        hidden |-> FALSE]

\* citySelect.options of the loaded page.
ParseSelect(lines) == [i \in 1..Len(lines) |-> ParseOption(lines[i])]

\* The option a freshly loaded select shows: the last one with the selected
\* attribute, else the first that is not disabled, else none.
InitialIndex(opts) ==
    LET sel == {i \in 1..Len(opts) : opts[i].selected}
        able == {i \in 1..Len(opts) : ~opts[i].disabled}
    IN IF sel # {} THEN CHOOSE i \in sel : \A j \in sel : j <= i
       ELSE IF able # {} THEN CHOOSE i \in able : \A j \in able : i <= j
       ELSE 0

-----------------------------------------------------------------------------
(* The script of the rendered page. *)

\* citySelect.value = v: the first option with that value is selected, none
\* when there is no such option.
SetSelectValue(opts, v) ==
    LET same == {i \in 1..Len(opts) : opts[i].value = v}
    IN IF same = {} THEN 0 ELSE CHOOSE i \in same : \A j \in same : i <= j

\* citySelect.value: the selected option's value, "" when none is selected.
SelectValue(opts, idx) == IF idx = 0 THEN <<>> ELSE opts[idx].value

\* The input handler's loop: options without a value are left alone, the
\* others are hidden unless their text includes the term.
FilterOptions(opts, term) ==
    [i \in 1..Len(opts) |->
        IF opts[i].value = <<>> THEN opts[i]
        ELSE [opts[i] EXCEPT !.hidden = ~includes(lower(OptionText(opts[i])), term)]]

\* firstVisible after the loop: 0 stands for null.
FirstVisible(opts, term) ==
    LET m == {i \in 1..Len(opts) :
                 opts[i].value # <<>> /\ includes(lower(OptionText(opts[i])), term)}
    IN IF m = {} THEN 0 ELSE CHOOSE i \in m : \A j \in m : i <= j

HEX == <<"0","1","2","3","4","5","6","7","8","9","A","B","C","D","E","F">>

\* The characters encodeURIComponent leaves as they are.
Unreserved(c) ==
    \/ IsCased(c)
    \/ Ord[c] >= Ord["0"] /\ Ord[c] <= Ord["9"]
    \/ c \in {"-", "_", ".", "!", "~", "*", "'", "(", ")"}

\* encodeURIComponent on ASCII text.
RECURSIVE encodeURIComponent(_)
encodeURIComponent(s) ==
    IF s = <<>> THEN <<>>
    ELSE (IF Unreserved(Head(s)) THEN <<Head(s)>>
          ELSE <<"%", HEX[(Ord[Head(s)] \div Len(HEX)) + 1],
                      HEX[(Ord[Head(s)] % Len(HEX)) + 1]>>)
         \o encodeURIComponent(Tail(s))

\* The joiner, as a bug would make it: always a question mark.
AlwaysQuestionMark(destination) == <<"?">>

\* destination.includes('?') ? '&' : '?'
Joiner(destination) == IF includes(destination, <<"?">>) THEN <<"&">> ELSE <<"?">>

\* The submit handler's destination for a non-empty citySelect.value.
Destination(value, keywordText) ==
    LET keyword == trim(keywordText)
    IN IF keyword # <<>>
       THEN value \o Joiner(value) \o <<"q","=">> \o encodeURIComponent(keyword)
       ELSE value

-----------------------------------------------------------------------------
(* The inputs the model draws from. *)

DIST_DIR == <<<<"d","i","s","t">>>>
OUTPUT_FILE == <<<<"h","o","m","e",".","h","t","m","l">>>>

\* The output directories discover_city_pages is given: the default, a nested
\* one and the working directory itself.
DistDirs == {DIST_DIR, <<<<"o","u","t">>, <<"d","i","s","t">>>>, <<>>}

S_raleigh == <<"r","a","l","e","i","g","h">>
S_durham_nc == <<"d","u","r","h","a","m","-","n","c">>
F_raleigh_html == <<"r","a","l","e","i","g","h",".","h","t","m","l">>

\* The files a tree is made of, relative to the output directory.
FileUniverse ==
    { <<INDEX_HTML>>,
      <<<<"a","b","o","u","t",".","h","t","m","l">>>>,
      <<F_raleigh_html>>,
      <<S_raleigh, INDEX_HTML>>,
      <<S_raleigh, <<"d","a","t","a",".","j","s","o","n">>>>,
      <<<<"a">>, F_raleigh_html>>,
      <<<<"a">>, <<"o","l","d",".","h","t","m","l">>, <<"r","e","a","d","m","e",".","t","x","t">>>>,
      <<<<"z">>, F_raleigh_html>>,
      <<<<"z">>, S_raleigh, INDEX_HTML>>,
      <<S_durham_nc, INDEX_HTML>> }

Trees == {T \in SUBSET FileUniverse : Cardinality(T) <= MaxFiles}

S_chapel_hill_nc == <<"c","h","a","p","e","l","-","h","i","l","l","-","n","c">>
S_winston_salem_nc == <<"w","i","n","s","t","o","n","-","s","a","l","e","m","-","n","c">>

SlugChars == {"a", "n", "c", "N", "C", "-", "1"}

\* The slugs slug_to_label is applied to.
Slugs ==
    UNION {[1..k -> SlugChars] : k \in 0..MaxSlugLen}
        \cup {S_chapel_hill_nc, S_raleigh, S_winston_salem_nc}

\* The entry discover_city_pages returns for dist/<slug>/index.html.
EntryOf(s) == <<slug_to_label(s), rel_path(parent(DIST_DIR), DIST_DIR \o <<s, INDEX_HTML>>)>>

\* Directory names with the characters html.escape and the joiner are about.
PageSlugs ==
    { S_raleigh, <<"a","&","b">>, <<"q","?","x">>, <<"x","\"","y">>,
      <<"o","'","n","-","n","c">>, <<"a","<","b",">">> }

\* The lists build_home_html is given: sorted by label, as discovery returns them.
PageLists ==
    {l \in UNION {[1..k -> {EntryOf(s) : s \in PageSlugs}] : k \in 0..MaxEntries} :
        \A i \in 1..(Len(l) - 1) : StrLess(l[i][1], l[i + 1][1])}

\* What the user types into the city filter and into the keyword field.
SearchTerms == {<<>>, <<"r","a">>, <<" ","N","C"," ">>, <<"x">>, <<"z","z">>}
Keywords == {<<>>, <<" ">>, <<"a"," ","b">>, <<" ","c","+","&"," ">>}

-----------------------------------------------------------------------------
(* main: discover_city_pages, then build_home_html, then the write. *)

NoLabel == <<"n","o","n","e">>

Init ==
    /\ pc = "start"
    /\ \E d \in DistDirs, T \in Trees, ex \in BOOLEAN :
          /\ dist_dir = d
          /\ dir_exists = ex
          /\ tree = IF ex THEN {d \o f : f \in T} ELSE {}
    /\ pending = <<>>
    /\ discovered = <<>>
    /\ city_pages = <<>>
    /\ select_html = <<>>
    /\ slug = <<>>
    /\ label = NoLabel
    /\ options = <<>>
    /\ selectedIndex = 0
    /\ searchValue = <<>>
    /\ keywordValue = <<>>
    /\ href = OUTPUT_FILE

\* if not dist_dir.exists(): return []
ReturnMissing ==
    /\ pc = "start"
    /\ ~dir_exists
    /\ city_pages' = <<>>
    /\ pc' = "discovered"
    /\ UNCHANGED <<discoverVars, select_html, labelVars, pageVars>>

\* discovered = {}; the for statement evaluates sorted(dist_dir.rglob("*.html")).
StartScan ==
    /\ pc = "start"
    /\ dir_exists
    /\ discovered' = <<>>
    /\ pending' = SortedPaths(rglob(dist_dir, tree))
    /\ pc' = "scan"
    /\ UNCHANGED <<dist_dir, dir_exists, tree, city_pages, select_html, labelVars, pageVars>>

\* One pass of the loop.
ScanStep ==
    /\ pc = "scan"
    /\ pending # <<>>
    /\ discovered' = LoopBody(discovered, Head(pending), dist_dir)
    /\ pending' = Tail(pending)
    /\ UNCHANGED <<pc, dist_dir, dir_exists, tree, city_pages, select_html, labelVars, pageVars>>

\* The return statement after the loop.
ReturnPages ==
    /\ pc = "scan"
    /\ pending = <<>>
    /\ city_pages' = ReturnedPages(discovered, dist_dir)
    /\ pc' = IF \E i \in 1..Len(city_pages') : city_pages'[i][2] = <<"ValueError">>
             THEN "raised" ELSE "discovered"
    /\ UNCHANGED <<discoverVars, select_html, labelVars, pageVars>>

\* html_doc = build_home_html(city_pages)
Render ==
    /\ pc = "discovered"
    /\ select_html' = build_home_html(city_pages)
    /\ pc' = "rendered"
    /\ UNCHANGED <<discoverVars, city_pages, labelVars, pageVars>>

\* OUTPUT_FILE.write_text(html_doc)
Write ==
    /\ pc = "rendered"
    /\ pc' = "written"
    /\ UNCHANGED <<discoverVars, city_pages, select_html, labelVars, pageVars>>

Next == ReturnMissing \/ StartScan \/ ScanStep \/ ReturnPages \/ Render \/ Write

Spec == Init /\ [][Next]_vars

-----------------------------------------------------------------------------
(* slug_to_label applied to a slug. *)

InitLabel ==
    /\ pc = "slug"
    /\ slug \in Slugs
    /\ label = NoLabel
    /\ dist_dir = DIST_DIR
    /\ dir_exists = FALSE
    /\ tree = {}
    /\ pending = <<>>
    /\ discovered = <<>>
    /\ city_pages = <<>>
    /\ select_html = <<>>
    /\ options = <<>>
    /\ selectedIndex = 0
    /\ searchValue = <<>>
    /\ keywordValue = <<>>
    /\ href = OUTPUT_FILE

Label ==
    /\ pc = "slug"
    /\ label' = slug_to_label(slug)
    /\ pc' = "labelled"
    /\ UNCHANGED <<discoverVars, city_pages, select_html, slug, pageVars>>

NextLabel == Label

SpecLabel == InitLabel /\ [][NextLabel]_vars

-----------------------------------------------------------------------------
(* The rendered page in a browser. *)

InitPage ==
    /\ pc = "discovered"
    /\ city_pages \in PageLists
    /\ dist_dir = DIST_DIR
    /\ dir_exists = TRUE
    /\ tree = {}
    /\ pending = <<>>
    /\ discovered = <<>>
    /\ select_html = <<>>
    /\ slug = <<>>
    /\ label = NoLabel
    /\ options = <<>>
    /\ selectedIndex = 0
    /\ searchValue = <<>>
    /\ keywordValue = <<>>
    /\ href = OUTPUT_FILE

\* The browser loads the written document.
Load ==
    /\ pc = "rendered"
    /\ options' = ParseSelect(select_html)
    /\ selectedIndex' = InitialIndex(options')
    /\ pc' = "loaded"
    /\ UNCHANGED <<discoverVars, city_pages, select_html, labelVars, searchValue,
                   keywordValue, href>>

PageOpen == pc \in {"loaded", "stayed"}

\* The user edits the city filter: the input handler of searchInput.
InputSearch ==
    /\ PageOpen
    /\ \E text \in SearchTerms :
          LET term == lower(trim(text))
              firstVisible == FirstVisible(options, term)
          IN /\ searchValue' = text
             /\ options' = FilterOptions(options, term)
             /\ selectedIndex' =
                   IF firstVisible # 0
                   THEN SetSelectValue(options', options[firstVisible].value)
                   ELSE SetSelectValue(options', <<>>)
    /\ pc' = "loaded"
    /\ UNCHANGED <<discoverVars, city_pages, select_html, labelVars, keywordValue, href>>

\* The user edits the keyword field: no handler.
InputKeyword ==
    /\ PageOpen
    /\ \E text \in Keywords : keywordValue' = text
    /\ pc' = "loaded"
    /\ UNCHANGED <<discoverVars, city_pages, select_html, labelVars, options,
                   selectedIndex, searchValue, href>>

\* The user picks an option of the select that is not disabled.
PickOption ==
    /\ PageOpen
    /\ \E i \in 1..Len(options) :
          /\ ~options[i].disabled
          /\ selectedIndex' = i
    /\ pc' = "loaded"
    /\ UNCHANGED <<discoverVars, city_pages, select_html, labelVars, options,
                   searchValue, keywordValue, href>>

\* The submit handler of the form.
Submit ==
    /\ PageOpen
    /\ LET destination == SelectValue(options, selectedIndex)
       IN IF destination = <<>>
          THEN /\ pc' = "stayed"
               /\ href' = href
          ELSE /\ pc' = "navigated"
               /\ href' = Destination(destination, keywordValue)
    /\ UNCHANGED <<discoverVars, city_pages, select_html, labelVars, options,
                   selectedIndex, searchValue, keywordValue>>

NextPage == Render \/ Load \/ InputSearch \/ InputKeyword \/ PickOption \/ Submit

SpecPage == InitPage /\ [][NextPage]_vars

-----------------------------------------------------------------------------
(* Properties of discover_city_pages, under Spec. *)

Returned == pc \in {"discovered", "rendered", "written"}

\* The pages the scan visits that are neither the statewide index nor directly
\* in the output directory, with the label each maps to.
Nested == {p \in rglob(dist_dir, tree) : Len(p) >= Len(dist_dir) + 2}
IsIndexPage(p) == p[Len(p)] = INDEX_HTML
PageLabel(p) ==
    slug_to_label(IF IsIndexPage(p) THEN p[Len(p) - 1] ELSE stem(<<p[Len(p)]>>))
Competing(l) == {p \in Nested : PageLabel(p) = l}
Visited == rglob(dist_dir, tree) \ {pending[i] : i \in 1..Len(pending)}
FirstOf(S) == CHOOSE p \in S : \A q \in S \ {p} : PathLess(p, q)
LastOf(S) == CHOOSE p \in S : \A q \in S \ {p} : PathLess(q, p)
Labels == {PageLabel(p) : p \in Nested}

\* The file an entry's link names when it is resolved from directory dir.
Resolved(dir, link) == dir \o split(link, "/")

\* C1: the returned entries are in strictly ascending order of label, so no
\* label occurs twice.
C1_SortedByLabel ==
    Returned =>
        \A i, j \in 1..Len(city_pages) :
            i < j => StrLess(city_pages[i][1], city_pages[j][1])

\* C1's case: two entries are returned whose pages were met in the other order.
C1_Witness ==
    /\ pc = "discovered"
    /\ Len(city_pages) >= 2
    /\ PathLess(discovered[city_pages[2][1]], discovered[city_pages[1][1]])

\* C2: no returned entry names <output_dir>/index.html or any other file whose
\* parent is the output directory: every entry's file is at least one directory
\* below it.
C2_NothingFromTheRoot ==
    Returned =>
        \A i \in 1..Len(city_pages) :
            LET file == Resolved(parent(dist_dir), city_pages[i][2])
            IN /\ file \in rglob(dist_dir, tree)
               /\ file # dist_dir \o <<INDEX_HTML>>
               /\ SubSeq(file, 1, Len(file) - 1) # dist_dir
               /\ Len(file) >= Len(dist_dir) + 2

\* C2's case: the tree holds the root index.html, a loose root page and a page
\* that is returned.
C2_Witness ==
    /\ pc = "discovered"
    /\ dist_dir \o <<INDEX_HTML>> \in tree
    /\ dist_dir \o <<F_raleigh_html>> \in tree
    /\ city_pages # <<>>

\* C3: once the scan has met a directory-style index.html page for a label, the
\* page kept for that label is an index.html page, whether flat files of the
\* label were met before it or after it; so the returned entry names one.
C3_IndexPageWins ==
    (pc = "scan" \/ (Returned /\ dir_exists)) =>
        \A l \in Labels :
            (\E p \in Competing(l) \cap Visited : IsIndexPage(p)) =>
                /\ l \in DOMAIN discovered
                /\ IsIndexPage(discovered[l])
                /\ Returned =>
                      \E i \in 1..Len(city_pages) :
                          /\ city_pages[i][1] = l
                          /\ Resolved(parent(dist_dir), city_pages[i][2]) = discovered[l]

\* C3's case: a label has a flat file met before its index.html page and
\* another met after it.
C3_Witness ==
    /\ pc = "discovered"
    /\ \E l \in Labels :
          \E x \in Competing(l) : \E f, g \in Competing(l) :
              /\ IsIndexPage(x) /\ ~IsIndexPage(f) /\ ~IsIndexPage(g)
              /\ PathLess(f, x) /\ PathLess(x, g)
              /\ discovered[l] = x

\* C9 as claimed: among several pages of a label none of which is an index.html
\* page, the last one in scan order is kept.
C9_LastWriterWins ==
    (Returned /\ dir_exists) =>
        \A l \in Labels :
            (\A p \in Competing(l) : ~IsIndexPage(p)) =>
                discovered[l] = LastOf(Competing(l))

\* C9, amended: among several pages of a label none of which is an index.html
\* page, the first one in scan order is kept; a later page replaces the kept one
\* only when the later page is an index.html page, so that among index.html pages
\* the last one is kept.
C9_FirstWriterWins ==
    (Returned /\ dir_exists) =>
        \A l \in Labels :
            /\ l \in DOMAIN discovered
            /\ discovered[l] =
                  IF \A p \in Competing(l) : ~IsIndexPage(p)
                  THEN FirstOf(Competing(l))
                  ELSE LastOf({p \in Competing(l) : IsIndexPage(p)})

\* C9's case: a label has two flat files and no index.html page.
C9_Witness ==
    /\ pc = "discovered"
    /\ \E l \in Labels :
          /\ Cardinality(Competing(l)) >= 2
          /\ \A p \in Competing(l) : ~IsIndexPage(p)

\* C10: every returned link, resolved from the directory home.html is written
\* to, names the page that was chosen for the entry's label.
C10_LinkResolvesFromOutputFile ==
    (Returned /\ dir_exists) =>
        \A i \in 1..Len(city_pages) :
            Resolved(parent(OUTPUT_FILE), city_pages[i][2]) = discovered[city_pages[i][1]]

-----------------------------------------------------------------------------
(* Properties of the rendered <select>. *)

NoPagesText == <<"N","o"," ","c","i","t","y"," ","p","a","g","e","s"," ","f","o","u","n","d">>

IsNoPagesOption(o) ==
    o.value = <<>> /\ o.disabled /\ o.textContent = NoPagesText

NothingToScan == ~dir_exists \/ tree = {}

\* C4 as claimed: for a missing or empty output directory the entries are empty
\* and the select holds the disabled placeholder and no other option.
C4_OnlyThePlaceholder ==
    (pc \in {"rendered", "written"} /\ NothingToScan) =>
        /\ city_pages = <<>>
        /\ Len(ParseSelect(select_html)) = 1
        /\ IsNoPagesOption(ParseSelect(select_html)[1])

\* C4, amended: for a missing or empty output directory discovery returns the
\* empty list without raising, and the select holds the template's own disabled
\* "Select a city" option followed by the disabled "No city pages found"
\* placeholder, and no option with a value.
C4_PlaceholderAfterPrompt ==
    /\ NothingToScan => pc # "raised"
    /\ (Returned /\ NothingToScan) => city_pages = <<>>
    /\ (pc \in {"rendered", "written"} /\ NothingToScan) =>
          LET opts == ParseSelect(select_html)
          IN /\ Len(opts) = 2
             /\ opts[1].value = <<>> /\ opts[1].disabled /\ opts[1].selected
             /\ opts[1].textContent = <<"S","e","l","e","c","t"," ","a"," ","c","i","t","y">>
             /\ IsNoPagesOption(opts[2])

\* C4's case: the page was rendered for an output directory that does not exist.
C4_Witness == pc = "rendered" /\ ~dir_exists /\ select_html # <<>>

-----------------------------------------------------------------------------
(* Properties of slug_to_label, under SpecLabel. *)

\* The place of the slug's last hyphen, 0 when it has none.
LastHyphen(s) ==
    LET h == {i \in 1..Len(s) : s[i] = "-"}
    IN IF h = {} THEN 0 ELSE CHOOSE i \in h : \A j \in h : j <= i

LastSegment(s) == SubSeq(s, LastHyphen(s) + 1, Len(s))

\* The segments before the last one, joined by single spaces.
CityWords(s) ==
    [i \in 1..(IF LastHyphen(s) = 0 THEN 0 ELSE LastHyphen(s) - 1) |->
        IF s[i] = "-" THEN " " ELSE s[i]]

\* The whole slug with a space for every hyphen.
SlugWords(s) == [i \in 1..Len(s) |-> IF s[i] = "-" THEN " " ELSE s[i]]

\* t is s title-cased per word: the first letter of every run of letters is in
\* upper case, its other letters are in lower case, and nothing else changes.
IsTitleCased(t, s) ==
    /\ Len(t) = Len(s)
    /\ \A i \in 1..Len(s) :
          IF ~IsCased(s[i]) THEN t[i] = s[i]
          ELSE IF i = 1 \/ ~IsCased(s[i - 1])
               THEN IsUpper(t[i]) /\ ToLower(t[i]) = ToLower(s[i])
               ELSE IsLower(t[i]) /\ ToUpper(t[i]) = ToUpper(s[i])

EndsInNC(s) == LastSegment(s) \in {<<"n","c">>, <<"N","c">>, <<"n","C">>, <<"N","C">>}

\* The label is the title-cased city followed by ", NC".
IsCityLabel(l, city) ==
    /\ Len(l) = Len(city) + 4
    /\ IsTitleCased(SubSeq(l, 1, Len(city)), city)
    /\ SubSeq(l, Len(city) + 1, Len(l)) = <<",", " ", "N", "C">>

Examples ==
    /\ slug = S_chapel_hill_nc => label = <<"C","h","a","p","e","l"," ","H","i","l","l",","," ","N","C">>
    /\ slug = S_raleigh => label = <<"R","a","l","e","i","g","h">>
    /\ slug = S_winston_salem_nc => label = <<"W","i","n","s","t","o","n"," ","S","a","l","e","m",","," ","N","C">>

\* C5 as claimed: when the last segment is "nc" in any case the label is the
\* segments before it, joined by spaces and title-cased, followed by ", NC";
\* otherwise it is the slug with spaces for hyphens, title-cased.
C5_LabelRule ==
    pc = "labelled" =>
        /\ IF EndsInNC(slug)
           THEN IsCityLabel(label, CityWords(slug))
           ELSE IsTitleCased(label, SlugWords(slug))
        /\ Examples

\* C5, amended: the same when the segments before "nc" join to a non-empty
\* string; when they join to the empty string the label still ends in ", NC"
\* but the city before the suffix is not empty.
C5_LabelRuleOfNamedCities ==
    pc = "labelled" =>
        /\ IF EndsInNC(slug)
           THEN IF CityWords(slug) # <<>>
                THEN IsCityLabel(label, CityWords(slug))
                ELSE /\ Len(label) > 4
                     /\ SubSeq(label, Len(label) - 3, Len(label)) = <<",", " ", "N", "C">>
           ELSE IsTitleCased(label, SlugWords(slug))
        /\ Examples

\* C5's case: a slug whose last segment is NC in upper case has been labelled.
C5_Witness ==
    /\ pc = "labelled"
    /\ slug = <<"a", "-", "N", "C">>
    /\ label = <<"A", ",", " ", "N", "C">>

\* C6: the slug "nc" is labelled "NC, NC".
C6_BareNC ==
    (pc = "labelled" /\ slug = <<"n", "c">>) => label = <<"N","C",","," ","N","C">>

-----------------------------------------------------------------------------
(* Properties of the rendered page, under SpecPage. *)

Count(s, c) == Cardinality({i \in 1..Len(s) : s[i] = c})

\* The part of an option line between the opening literal and </option>.
Inner(line) == SubSeq(line, Len(OPTION_OPEN) + 1, Len(line) - Len(OPTION_CLOSE))

\* Every ampersand starts one of the five character references.
AmpersandsAreReferences(s) ==
    \A i \in 1..Len(s) :
        s[i] = "&" =>
            \E r \in {AMP, LT, GT, QUOT, APOS} : startswith(SubSeq(s, i, Len(s)), r)

\* The only quote of the inner part closes the value and the only angle bracket
\* closes the tag.
IsSafeOption(line) ==
    /\ startswith(line, OPTION_OPEN)
    /\ SubSeq(line, Len(line) - Len(OPTION_CLOSE) + 1, Len(line)) = OPTION_CLOSE
    /\ Count(Inner(line), "\"") = 1
    /\ Count(Inner(line), ">") = 1
    /\ Count(Inner(line), "<") = 0
    /\ Count(Inner(line), "'") = 0
    /\ AmpersandsAreReferences(Inner(line))

Rendered == pc \in {"rendered", "loaded", "stayed", "navigated"}

\* C7: for a non-empty list the select holds, after the template's own option,
\* exactly one option per entry, in order, whose value reads back as the path
\* and whose text as the label, with no raw ampersand, angle bracket or quote
\* of either in the markup.
C7_OneEscapedOptionPerEntry ==
    (Rendered /\ city_pages # <<>>) =>
        /\ Len(select_html) = Len(city_pages) + 1
        /\ \A i \in 1..Len(city_pages) :
              LET line == select_html[i + 1]
              IN /\ IsSafeOption(line)
                 /\ ParseOption(line).value = city_pages[i][2]
                 /\ ParseOption(line).textContent = city_pages[i][1]
                 /\ ~ParseOption(line).disabled

\* C7's case: a label with an ampersand and a path with a quote were rendered.
C7_Witness ==
    /\ pc = "rendered"
    /\ \E i \in 1..Len(city_pages) : includes(city_pages[i][1], <<"&">>)
    /\ \E i \in 1..Len(city_pages) : includes(city_pages[i][2], <<"\"">>)
    /\ \E i \in 1..Len(select_html) : includes(select_html[i], AMP)

\* The selected option is the option of an entry.
CitySelected == selectedIndex >= 2 /\ city_pages # <<>>

\* C8: a submit navigates exactly when the option of an entry is selected, and
\* then to the entry's path, followed, when the trimmed keyword is not empty, by
\* & (the path has a ?) or ? (it has none) and q=<the encoded keyword>.
C8_SubmitDestination ==
    /\ pc = "stayed" => (~CitySelected /\ href = OUTPUT_FILE)
    /\ pc = "navigated" =>
          /\ CitySelected
          /\ LET path == city_pages[selectedIndex - 1][2]
                 keyword == trim(keywordValue)
                 query == <<"q", "=">> \o encodeURIComponent(keyword)
             IN href = IF keyword = <<>> THEN path
                       ELSE IF \E i \in 1..Len(path) : path[i] = "?"
                            THEN path \o <<"&">> \o query
                            ELSE path \o <<"?">> \o query

\* C8's case: after a filter input and a keyword edit the form was submitted
\* for a path that has a question mark.
C8_Witness ==
    /\ pc = "navigated"
    /\ searchValue # <<>>
    /\ trim(keywordValue) # <<>>
    /\ includes(city_pages[selectedIndex - 1][2], <<"?">>)

====
